---------------------------- MODULE Spec2Model ----------------------------
(***************************************************************************)
(* State-machine model of the order transaction engines of hadoku-trader:  *)
(*   FidelityTrading.transaction        (fidelity/trading.py)              *)
(*   FidelityClientAsync.transaction    (fidelity/async_client.py)         *)
(*                                                                         *)
(* The browser page is the environment.  Every call that waits on the page *)
(* (click, fill, press, goto, reload, wait_for, text_content, check) either *)
(* completes, expires with PlaywrightTimeoutError ("timeout") or raises    *)
(* another exception ("fault").  Visibility probes (is_visible, count)     *)
(* return a boolean chosen by the page; the fixed pauses                   *)
(* (page.wait_for_timeout) complete.                                       *)
(*                                                                         *)
(* Prices are fixed-point numbers in units of 0.0001; quantities are       *)
(* fixed-point numbers in units of half a share.                           *)
(***************************************************************************)
EXTENDS Integers, Sequences, FiniteSets

(***************************************************************************)
(* Bounds of the model.                                                    *)
(***************************************************************************)
\* quantities, in half shares: 0.5, 1.0, ... MaxQuantity/2
MaxQuantity == 2

\* requests the service receives in one run
MaxRequests == 2

\* words in a message given to the error classifier
MaxWords == 2

\* position rows on the positions page, and stocks added to one account
MaxRows == 3

Quantities == 1..MaxQuantity

\* last prices shown by the quote panel, in units of 0.0001:
\* 0.0004, 0.05, 0.10, 0.11, 0.50, 0.75, 10.00, 50.00, 100.00
Prices == {4, 500, 1000, 1100, 5000, 7500, 100000, 500000, 1000000}

\* explicit limit prices a caller passes, in units of 0.0001: 12.34
ExplicitLimits == {123400}

Stocks == {"AAPL", "aapl"}

Actions == {"buy", "SELL"}

Accounts == {"Z12345678"}

(***************************************************************************)
(* Program constants, in the fixed-point units of the model.               *)
(***************************************************************************)
\* a loop of six iterations
SelectAttempts_Six == 5 + 1

\* for attempt in range(5)
SelectAttempts == 5

\* last_price < 1
PennyLimit == 10000

\* last_price > 0.1
DiffThreshold == 1000

\* diff = 0.01
DiffLarge == 100

\* diff = 0.0001
DiffSmall == 1

\* precision = 3
PrecisionRegular == 3

\* precision = 2
PrecisionExtended == 2

(***************************************************************************)
(* Optional[float]                                                         *)
(***************************************************************************)
None == [some |-> FALSE, v |-> 0]

Some(x) == [some |-> TRUE, v |-> x]

(***************************************************************************)
(* str.upper(), str.lower(), str.title() on the strings of the model.      *)
(***************************************************************************)
Upper(s) ==
    CASE s = "aapl" -> "AAPL"
      [] s = "buy"  -> "BUY"
      [] s = "sell" -> "SELL"
      [] OTHER      -> s

Lower(s) ==
    CASE s = "AAPL" -> "aapl"
      [] s = "BUY"  -> "buy"
      [] s = "SELL" -> "sell"
      [] s = "Buy"  -> "buy"
      [] s = "Sell" -> "sell"
      [] s = "NoShares"     -> "noshares"
      [] s = "INSUFFICIENT" -> "insufficient"
      [] s = "Closed"       -> "closed"
      [] s = "Timeout"      -> "timeout"
      [] OTHER      -> s

Title(s) ==
    CASE Lower(s) = "buy"  -> "Buy"
      [] Lower(s) = "sell" -> "Sell"
      [] Lower(s) = "aapl" -> "Aapl"
      [] OTHER             -> s

(***************************************************************************)
(* Texts.  A text read from the page or carried by an exception is a       *)
(* sequence of tokens: "sp", "nl" and "tab" are the whitespace characters, *)
(* "critical" is the boilerplate word, "noshares", "insufficient",         *)
(* "closed" and "timeout" are the phrases the error classifier knows, and  *)
(* "w" is any other word.                                                  *)
(***************************************************************************)
Whitespace == {"sp", "nl", "tab"}

EmptyText == << >>

\* texts an error surface of the order ticket may show
ErrorTexts ==
    { EmptyText,
      <<"critical">>,
      <<"critical", "sp", "noshares">>,
      <<"w", "sp", "nl", "sp", "insufficient">> }

\* str(e) of a PlaywrightTimeoutError
TimeoutText == <<"timeout">>

\* str(e) of any other exception: some words, or nothing
FaultTexts == { <<"w">>, EmptyText }

\* the comprehension of _extract_error_message: a character is kept when it is
\* no whitespace, or when it is not the first one and the one before it is no
\* space
CollapseSpaces(t) ==
    LET Keep(i) == t[i] \notin Whitespace \/ (i > 1 /\ t[i - 1] # "sp")
        F[i \in 0..Len(t)] ==
            IF i = 0 THEN << >>
            ELSE IF Keep(i) THEN Append(F[i - 1], t[i]) ELSE F[i - 1]
    IN  F[Len(t)]

\* str.replace("critical", "")
RemoveCritical(t) == SelectSeq(t, LAMBDA c : c # "critical")

\* str.strip()
RECURSIVE Strip(_)
Strip(t) ==
    IF t = << >> THEN t
    ELSE IF Head(t) \in Whitespace THEN Strip(Tail(t))
    ELSE IF t[Len(t)] \in Whitespace THEN Strip(SubSeq(t, 1, Len(t) - 1))
    ELSE t

\* cleaned.replace("critical", "").strip()
CleanErrorText(t) == Strip(RemoveCritical(CollapseSpaces(t)))

(***************************************************************************)
(* Messages.  A message is its origin (kind), the values formatted into    *)
(* it (action, n) and the text interpolated into it (text).                *)
(***************************************************************************)
Msg(k, a, i, t) == [kind |-> k, action |-> a, n |-> i, text |-> t]

\* error_message=None
NoMsg == Msg("None", "", 0, EmptyText)

\* how a call ends: ret is FALSE until it ends; it ends by returning
\* OrderResult(success, error_message), or raised is TRUE and an exception
\* with the text of error_message leaves the call
OrderResult(s, m) ==
    [ret |-> TRUE, raised |-> FALSE, success |-> s, error_message |-> m]

Propagates(t) ==
    [ret |-> TRUE, raised |-> TRUE, success |-> FALSE,
     error_message |-> Msg("exception", "", 0, t)]

NoResult ==
    [ret |-> FALSE, raised |-> FALSE, success |-> FALSE, error_message |-> NoMsg]

\* Optional[str]: the value of preview_error
NoText == [some |-> FALSE, text |-> EmptyText]

SomeText(t) == [some |-> TRUE, text |-> t]

\* the outcomes of a call that waits on the page
Outcomes == {"ok", "timeout", "fault"}

\* str(e) for the exception of an outcome
ExcTexts(o) == IF o = "timeout" THEN {TimeoutText} ELSE FaultTexts

(***************************************************************************)
(* State.                                                                  *)
(***************************************************************************)
VARIABLES
    engine,         \* "sync": FidelityTrading, "async": FidelityClientAsync
    pc,             \* "idle", the stage about to run, or "done"
    req,            \* the arguments of the call in progress
    url,            \* page.url: "trade" on the order-entry page, else "other"
    last_price,     \* last_price of transaction
    extended,       \* extended of transaction
    precision,      \* precision of transaction
    attempt,        \* iterations begun by the loop of _select_action that is
                    \* running or has failed
    symbolEntered,  \* text filled into the symbol field
    qtyEntered,     \* number filled into the quantity field, None before
    orderMode,      \* "none", "market" or "limit": the order type selected
    limitEntered,   \* number filled into the limit price field, None before
    previewClicks,  \* clicks on "Preview order" in this call
    placeVisible,   \* "Place order" became visible in _preview_order
    preview_error,  \* preview_error of transaction, NoText for None
    checks,         \* the four checks of _validate_preview, << >> before
    placeClicks,    \* clicks on "Place order" in this call
    confirmSeen,    \* the wait for "Order received" completed
    reloads,        \* page.reload() calls in this call
    optionVisible,  \* account_locator.is_visible() as _select_account read
                    \* it: "yes" or "no", "unprobed" before
    errorDialog,    \* the error dialog of a preview in which "Place order"
                    \* did not appear: "none" before, then "open", "closed"
                    \* once its close control was clicked, "reloaded" once
                    \* the page was reloaded
    stages,         \* the stages run in this call, in order
    exc,            \* the exception that ended a stage: "none", "timeout"
                    \* or "fault"
    result          \* how the call ended, NoResult before

\* the state of a call of FidelityClientAsync.login
VARIABLES
    lpc,            \* "idle", the step of login about to run, or "done"
    lreq,           \* the arguments totp_secret and save_device of the call
    totp_secret,    \* the local totp_secret of login, "NA" replaced by None
                    \* once line 123 has run
    location,       \* what page.url holds after the credentials were
                    \* submitted
    totpVisible,    \* totp_heading.is_visible() as _handle_2fa read it
    tryVisible,     \* try_another.is_visible() as _handle_2fa read it
    ui,             \* the UI actions login has performed, in order
    lsteps,         \* the steps of login run in this call, in order
    lexc,           \* the exception that ended login: "none", "timeout"
                    \* or "fault"
    lresult         \* the pair login returned, NoLogin before

\* the state of the service facade (trader-worker/main.py, TraderService)
VARIABLES
    host,           \* "none" before start-up, "worker" or "service"
    config,         \* which settings the environment provides
    client,         \* _client: 0 for None, else the number of the client
    authenticated,  \* _authenticated
    created,        \* FidelityClient objects constructed so far
    closed,         \* the clients whose browser was closed
    waiting,        \* requests that arrived and wait for the event loop
    handler,        \* the request being handled, NoHandler when none
    hpc,            \* the position of the handler
    logins,         \* the pairs login returned to the handler, in order
    events,         \* what the handler did with the clients, in order
    response,       \* the response to the request handled last, NoResponse
                    \* while the next one is handled
    arrived,        \* requests received so far
    mark            \* the value of created when the last refresh began

\* the error classifier: its argument and the value it returned
VARIABLES
    message,        \* the text given to classify_error
    alert           \* the AlertCode returned, "none" before the call

\* the portfolio reader and the Account it builds
VARIABLES
    rows,           \* the position rows the positions page shows
    account         \* the Account built, NoAccount before

txVars == << engine, pc, req, url, last_price, extended, precision, attempt,
             symbolEntered, qtyEntered, orderMode, limitEntered,
             previewClicks, placeVisible, preview_error, checks, placeClicks,
             confirmSeen, reloads, optionVisible, errorDialog, stages, exc,
             result >>

loginVars == << lpc, lreq, totp_secret, location, totpVisible, tryVisible,
                ui, lsteps, lexc, lresult >>

serviceVars == << host, config, client, authenticated, created, closed,
                  waiting, handler, hpc, logins, events, response, arrived,
                  mark >>

classifierVars == << message, alert >>

readerVars == << rows, account >>

vars == << txVars, loginVars, serviceVars, classifierVars, readerVars >>

\* the variables a stage leaves alone unless it says otherwise
ticket == << symbolEntered, qtyEntered, orderMode, limitEntered >>

preview ==
    << previewClicks, placeVisible, preview_error, checks, placeClicks,
       confirmSeen >>

quote == << last_price, extended, precision >>

Requests ==
    [ stock : Stocks, quantity : Quantities, action : Actions,
      account : Accounts, dry : BOOLEAN,
      limit_price : {None} \cup {Some(x) : x \in ExplicitLimits} ]

NoRequest ==
    [ stock |-> "", quantity |-> 0, action |-> "", account |-> "",
      dry |-> TRUE, limit_price |-> None ]

\* totp_secret: None, the sentinel "NA", the empty string or a secret
TotpSecrets == {None, Some("NA"), Some(""), Some("JBSWY3DPEHPK3PXP")}

LoginRequests == [ totp_secret : TotpSecrets, save_device : BOOLEAN ]

NoLoginRequest == [ totp_secret |-> None, save_device |-> FALSE ]

\* page.url after the credentials were submitted: whether it contains
\* "summary" and whether it contains "login"
Locations == [ summary : BOOLEAN, login : BOOLEAN ]

NoLocation == [ summary |-> FALSE, login |-> FALSE ]

\* how login ends: ret is FALSE until it ends; it ends by returning the
\* pair (step1, step2), or raised is TRUE and an exception leaves the call
LoginResult(a, b) ==
    [ret |-> TRUE, raised |-> FALSE, step1 |-> a, step2 |-> b]

LoginPropagates ==
    [ret |-> TRUE, raised |-> TRUE, step1 |-> FALSE, step2 |-> FALSE]

NoLogin == [ret |-> FALSE, raised |-> FALSE, step1 |-> FALSE, step2 |-> FALSE]

LoginInit ==
    /\ lpc = "idle"
    /\ lreq = NoLoginRequest
    /\ totp_secret = None
    /\ location = NoLocation
    /\ totpVisible = FALSE
    /\ tryVisible = FALSE
    /\ ui = << >>
    /\ lsteps = << >>
    /\ lexc = "none"
    /\ lresult = NoLogin

\* the settings of the environment: for each, whether it is set to a
\* non-empty value
NoConfig ==
    [ username |-> FALSE, password |-> FALSE, totp_secret |-> FALSE,
      default_account |-> FALSE ]

\* no request is being handled
NoHandler ==
    [ kind |-> "none", id |-> 0, key_ok |-> FALSE, account |-> FALSE,
      dry_run |-> TRUE ]

\* no response yet
NoResponse ==
    [ id |-> 0, kind |-> "none", status |-> 0, raised |-> FALSE,
      success |-> FALSE, message |-> "", fields |-> {} ]

ServiceInit ==
    /\ host = "none"
    /\ config = NoConfig
    /\ client = 0
    /\ authenticated = FALSE
    /\ created = 0
    /\ closed = {}
    /\ waiting = {}
    /\ handler = NoHandler
    /\ hpc = "idle"
    /\ logins = << >>
    /\ events = << >>
    /\ response = NoResponse
    /\ arrived = 0
    /\ mark = 0

\* no Account yet
NoAccount ==
    [made |-> FALSE, by |-> "none", number |-> 0, balance |-> 0,
     stocks |-> << >>]

ClassifierInit == message = EmptyText /\ alert = "none"

ReaderInit == rows = << >> /\ account = NoAccount

TxInit ==
    /\ engine = "sync"
    /\ pc = "idle"
    /\ req = NoRequest
    /\ url = "other"
    /\ last_price = 0
    /\ extended = FALSE
    /\ precision = PrecisionRegular
    /\ attempt = 0
    /\ symbolEntered = ""
    /\ qtyEntered = None
    /\ orderMode = "none"
    /\ limitEntered = None
    /\ previewClicks = 0
    /\ placeVisible = FALSE
    /\ preview_error = NoText
    /\ checks = << >>
    /\ placeClicks = 0
    /\ confirmSeen = FALSE
    /\ reloads = 0
    /\ optionVisible = "unprobed"
    /\ errorDialog = "none"
    /\ stages = << >>
    /\ exc = "none"
    /\ result = NoResult

Init ==
    /\ LoginInit
    /\ ServiceInit
    /\ TxInit
    /\ ClassifierInit
    /\ ReaderInit

\* a caller invokes transaction(stock, quantity, action, account, dry,
\* limit_price) on one of the two engines
Call ==
    /\ pc = "idle"
    /\ \E e \in {"sync", "async"}, r \in Requests :
          /\ engine' = e
          /\ req' = r
    /\ pc' = "navigate"
    /\ UNCHANGED << url, quote, attempt, ticket, preview, reloads,
                    optionVisible, errorDialog, stages, exc, result >>
    /\ UNCHANGED << loginVars, serviceVars, classifierVars, readerVars >>

\* the call has returned its result to the caller; what it kept of the
\* call is discarded, the page stays where it is
Return ==
    /\ pc = "done"
    /\ pc' = "idle"
    /\ engine' = "sync"
    /\ req' = NoRequest
    /\ last_price' = 0
    /\ extended' = FALSE
    /\ precision' = PrecisionRegular
    /\ attempt' = 0
    /\ symbolEntered' = ""
    /\ qtyEntered' = None
    /\ orderMode' = "none"
    /\ limitEntered' = None
    /\ previewClicks' = 0
    /\ placeVisible' = FALSE
    /\ preview_error' = NoText
    /\ checks' = << >>
    /\ placeClicks' = 0
    /\ confirmSeen' = FALSE
    /\ reloads' = 0
    /\ optionVisible' = "unprobed"
    /\ errorDialog' = "none"
    /\ stages' = << >>
    /\ exc' = "none"
    /\ result' = NoResult
    /\ UNCHANGED url
    /\ UNCHANGED << loginVars, serviceVars, classifierVars, readerVars >>

(***************************************************************************)
(* FidelityTrading.transaction                                             *)
(***************************************************************************)
\* the quantity is entered before the side is selected
StageOrder_QuantityFirst ==
    << "navigate", "select_account", "enter_symbol", "extended_hours",
       "enter_quantity", "select_action", "set_order_type", "preview",
       "validate", "submit" >>

\* the stages of transaction, in the order of its statements
StageOrder ==
    << "navigate", "select_account", "enter_symbol", "extended_hours",
       "select_action", "enter_quantity", "set_order_type", "preview",
       "validate", "submit" >>

\* the stage whose statement follows that of stage s
NextStage(s) ==
    LET i == CHOOSE j \in 1..Len(StageOrder) : StageOrder[j] = s
    IN  StageOrder[i + 1]

\* only the clause for PlaywrightTimeoutError: any other exception leaves
\* the call
TransactionExcept_TimeoutOnly(o, t) ==
    IF o = "timeout"
    THEN OrderResult(FALSE, Msg("timeout_during", "", 0, t))
    ELSE Propagates(t)

\* the two except clauses of transaction
TransactionExcept(o, t) ==
    IF o = "timeout"
    THEN OrderResult(FALSE, Msg("timeout_during", "", 0, t))
    ELSE OrderResult(FALSE, Msg("transaction_error", "", 0, t))

\* a stage raises: the except clauses build the result and the call ends
Raise(o) ==
    /\ o # "ok"
    /\ exc' = o
    /\ \E t \in ExcTexts(o) : result' = TransactionExcept(o, t)
    /\ pc' = "done"

\* a return statement of transaction
Returns(r) ==
    /\ result' = r
    /\ pc' = "done"
    /\ UNCHANGED exc

\* stage s is over and the statement after it runs
Continue(s) ==
    /\ pc' = NextStage(s)
    /\ UNCHANGED << result, exc >>

\* self._navigate_to_trade_page()
Navigate ==
    /\ engine = "sync" /\ pc = "navigate"
    /\ stages' = Append(stages, "navigate")
    /\ \E o \in Outcomes :
          \/ /\ o = "ok"
             /\ url' = "trade"
             /\ Continue("navigate")
          \/ /\ Raise(o)
             /\ UNCHANGED url
    /\ UNCHANGED << engine, req, quote, attempt, ticket, preview, reloads,
                    optionVisible,
                    errorDialog >>
    /\ UNCHANGED << loginVars, serviceVars, classifierVars, readerVars >>

\* the page is reloaded whether or not the option is visible
ReloadForAccount_Always(visible) == TRUE

\* if not account_locator.is_visible(): page.reload()
ReloadForAccount(visible) == ~visible

\* self._select_account(account)
SelectAccount ==
    /\ engine = "sync" /\ pc = "select_account"
    /\ stages' = Append(stages, "select_account")
    /\ \E visible \in BOOLEAN, o \in Outcomes :
          \* the dropdown click raises before the option is probed
          \/ /\ Raise(o)
             /\ UNCHANGED << reloads, optionVisible >>
          \* the option is probed; when it is not visible the page is
          \* reloaded and the dropdown opened again; then the option is
          \* clicked, or one of these calls raises
          \/ /\ optionVisible' = IF visible THEN "yes" ELSE "no"
             /\ reloads' = IF ReloadForAccount(visible) THEN reloads + 1
                           ELSE reloads
             /\ \/ o = "ok" /\ Continue("select_account")
                \/ Raise(o)
    /\ UNCHANGED << engine, req, url, quote, attempt, ticket, preview,
                    errorDialog >>
    /\ UNCHANGED << loginVars, serviceVars, classifierVars, readerVars >>

\* last_price = self._enter_symbol(stock)
EnterSymbol ==
    /\ engine = "sync" /\ pc = "enter_symbol"
    /\ stages' = Append(stages, "enter_symbol")
    /\ \E o \in Outcomes :
          \* symbol_input.click() raises
          \/ /\ Raise(o)
             /\ UNCHANGED << symbolEntered, last_price >>
          \* symbol_input.fill(stock), then Enter, the quote and its price
          \/ /\ symbolEntered' = req.stock
             /\ \/ /\ o = "ok"
                   /\ \E p \in Prices : last_price' = p
                   /\ Continue("enter_symbol")
                \/ /\ Raise(o)
                   /\ UNCHANGED last_price
    /\ UNCHANGED << engine, req, url, extended, precision, attempt, qtyEntered,
                    orderMode, limitEntered, preview, reloads,
                    optionVisible,
                    errorDialog >>
    /\ UNCHANGED << loginVars, serviceVars, classifierVars, readerVars >>

\* extended, precision = self._setup_extended_hours()
\* if extended: last_price = self._get_extended_price(last_price)
ExtendedHours ==
    /\ engine = "sync" /\ pc = "extended_hours"
    /\ stages' = Append(stages, "extended_hours")
    /\ \E ext \in BOOLEAN, o \in Outcomes :
          \/ /\ o = "ok"
             /\ extended' = ext
             /\ precision' = IF ext THEN PrecisionExtended ELSE PrecisionRegular
             \* _get_extended_price: the price element is read again when it
             \* is visible, else the fallback is kept
             /\ \/ ext /\ \E p \in Prices : last_price' = p
                \/ UNCHANGED last_price
             /\ Continue("extended_hours")
          \/ /\ Raise(o)
             /\ UNCHANGED quote
    /\ UNCHANGED << engine, req, url, attempt, ticket, preview, reloads,
                    optionVisible,
                    errorDialog >>
    /\ UNCHANGED << loginVars, serviceVars, classifierVars, readerVars >>

\* the count starts again after the second attempt: the loop never runs out
NextAttempt_Restart(a) == IF a >= 2 THEN 1 ELSE a + 1

\* for attempt in range(5): the iterations begun after one more
NextAttempt(a) == a + 1

\* one iteration of the loop of _select_action; when the loop is exhausted
\* _select_action returns False and transaction returns the failure
SelectAction ==
    /\ engine = "sync" /\ pc = "select_action"
    /\ attempt < SelectAttempts
    /\ stages' = IF attempt = 0 THEN Append(stages, "select_action") ELSE stages
    /\ \E clicked \in BOOLEAN :
          \* target_option.click(timeout=3000) completed: return True
          \/ /\ clicked
             /\ attempt' = 0
             /\ Continue("select_action")
          \* a click raised: the exception is printed and the loop goes on
          \/ /\ ~clicked
             /\ attempt' = NextAttempt(attempt)
             /\ IF attempt' < SelectAttempts
                THEN UNCHANGED << pc, result, exc >>
                ELSE Returns(OrderResult(FALSE,
                         Msg("select_failed", req.action, 5, EmptyText)))
    /\ UNCHANGED << engine, req, url, quote, ticket, preview, reloads,
                    optionVisible,
                    errorDialog >>
    /\ UNCHANGED << loginVars, serviceVars, classifierVars, readerVars >>

\* self._enter_quantity(quantity): fill(str(quantity))
EnterQuantity ==
    /\ engine = "sync" /\ pc = "enter_quantity"
    /\ stages' = Append(stages, "enter_quantity")
    /\ \E o \in Outcomes :
          \/ /\ o = "ok"
             /\ qtyEntered' = Some(req.quantity)
             /\ Continue("enter_quantity")
          \/ /\ Raise(o)
             /\ UNCHANGED qtyEntered
    /\ UNCHANGED << engine, req, url, quote, attempt, symbolEntered, orderMode,
                    limitEntered, preview, reloads,
                    optionVisible,
                    errorDialog >>
    /\ UNCHANGED << loginVars, serviceVars, classifierVars, readerVars >>

\* 10 ** n
RECURSIVE Pow10(_)
Pow10(n) == IF n = 0 THEN 1 ELSE 10 * Pow10(n - 1)

\* round(x, ndigits) of a float x >= 0 that is within rounding error of a
\* number of four decimals: the nearest multiple of 10 ** -ndigits; at a tie
\* the binary value of x decides, so either neighbour is possible
RoundResults(x, ndigits) ==
    LET u == Pow10(4 - ndigits)
        q == x \div u
        r == x % u
    IN  IF 2 * r < u THEN {q * u}
        ELSE IF 2 * r > u THEN {(q + 1) * u}
        ELSE {q * u, (q + 1) * u}

\* >= in place of >
Diff_AtLeast(last) == IF last >= DiffThreshold THEN DiffLarge ELSE DiffSmall

\* diff = 0.01 if last_price > 0.1 else 0.0001
Diff(last) == IF last > DiffThreshold THEN DiffLarge ELSE DiffSmall

\* the two branches of the side exchanged
LimitPrice_SidesSwapped(last, action, ndigits, limit_price) ==
    IF limit_price.some
    THEN {limit_price.v}
    ELSE IF Lower(action) = "buy"
         THEN RoundResults(last - Diff(last), ndigits)
         ELSE RoundResults(last + Diff(last), ndigits)

\* the price of _set_limit_order
LimitPrice(last, action, ndigits, limit_price) ==
    IF limit_price.some
    THEN {limit_price.v}
    ELSE IF Lower(action) = "buy"
         THEN RoundResults(last + Diff(last), ndigits)
         ELSE RoundResults(last - Diff(last), ndigits)

\* the condition without the penny-stock rule
UseLimitOrder_NoPenny(last, ext, limit_price) == ext \/ limit_price.some

\* the condition of _set_order_type
UseLimitOrder(last, ext, limit_price) ==
    last < PennyLimit \/ ext \/ limit_price.some

\* self._set_order_type(last_price, action, extended, precision, limit_price)
SetOrderType ==
    /\ engine = "sync" /\ pc = "set_order_type"
    /\ stages' = Append(stages, "set_order_type")
    /\ \E o \in Outcomes :
          IF UseLimitOrder(last_price, extended, req.limit_price)
          THEN \* _set_limit_order
               \/ /\ o = "ok"
                  /\ orderMode' = "limit"
                  /\ \E price \in LimitPrice(last_price, req.action, precision,
                                             req.limit_price) :
                        limitEntered' = Some(price)
                  /\ Continue("set_order_type")
               \* the order type is set to Limit, filling the price raises
               \/ /\ orderMode' = "limit"
                  /\ Raise(o)
                  /\ UNCHANGED limitEntered
               \* opening the order type list raises
               \/ /\ Raise(o)
                  /\ UNCHANGED << orderMode, limitEntered >>
          ELSE \* _set_market_order
               \/ /\ o = "ok"
                  /\ orderMode' = "market"
                  /\ Continue("set_order_type")
                  /\ UNCHANGED limitEntered
               \/ /\ Raise(o)
                  /\ UNCHANGED << orderMode, limitEntered >>
    /\ UNCHANGED << engine, req, url, quote, attempt, symbolEntered, qtyEntered,
                    preview, reloads,
                    optionVisible,
                    errorDialog >>
    /\ UNCHANGED << loginVars, serviceVars, classifierVars, readerVars >>

\* what reading one error surface gives: the read raises, or returns a text
Readings ==
    {[raised |-> TRUE, text |-> EmptyText]}
        \cup {[raised |-> FALSE, text |-> t] : t \in ErrorTexts}

\* error_message of _extract_error_message after its two try blocks: the
\* second surface is read only when the first gave nothing
ExtractedText(r1, r2) == IF r1.text # EmptyText THEN r1.text ELSE r2.text

\* if preview_error: neither None nor the empty string
PreviewFailed(e) == e.some /\ e.text # EmptyText

\* whether a click on the close control of the dialog completed: the click
\* c1 follows the first read when that did not raise, the click c2 follows
\* the second read, made when the first gave no text
DialogClosed(r1, c1, r2, c2) ==
    (~r1.raised /\ c1) \/ (r1.text = EmptyText /\ ~r2.raised /\ c2)

\* preview_error = self._preview_order(), and the return that follows it
PreviewOrder ==
    /\ engine = "sync" /\ pc = "preview"
    /\ stages' = Append(stages, "preview")
    /\ previewClicks' = previewClicks + 1
    /\ \E o \in Outcomes :
          \* the click on "Preview order" or wait_for_loading raises
          \/ /\ Raise(o)
             /\ UNCHANGED << placeVisible, preview_error, reloads,
                             errorDialog >>
          \* "Place order" becomes visible: return None
          \/ /\ o = "ok"
             /\ placeVisible' = TRUE
             /\ preview_error' = NoText
             /\ Continue("preview")
             /\ UNCHANGED << reloads, errorDialog >>
          \* the wait for "Place order" raises another exception
          \/ /\ o = "fault"
             /\ Raise(o)
             /\ UNCHANGED << placeVisible, preview_error, reloads,
                             errorDialog >>
          \* the wait expires: _extract_error_message
          \/ /\ o = "timeout"
             /\ UNCHANGED placeVisible
             /\ \E r1 \in Readings, r2 \in Readings,
                   c1 \in BOOLEAN, c2 \in BOOLEAN :
                LET error_message == ExtractedText(r1, r2)
                    cleaned == SomeText(CleanErrorText(error_message))
                    dialog == IF DialogClosed(r1, c1, r2, c2) THEN "closed"
                              ELSE "open"
                IN  IF error_message # EmptyText
                    THEN /\ UNCHANGED reloads
                         /\ errorDialog' = dialog
                         /\ preview_error' = cleaned
                         /\ IF PreviewFailed(cleaned)
                            THEN Returns(OrderResult(FALSE,
                                     Msg("preview_error", "", 0, cleaned.text)))
                            ELSE Continue("preview")
                    ELSE /\ reloads' = reloads + 1
                         /\ \E rl \in Outcomes :
                               \/ /\ rl = "ok"
                                  /\ errorDialog' = "reloaded"
                                  /\ preview_error' =
                                         SomeText(<<"could_not_retrieve">>)
                                  /\ Returns(OrderResult(FALSE,
                                         Msg("could_not_retrieve", "", 0,
                                             EmptyText)))
                               \* page.reload() raises, before or after the
                               \* page was loaded again
                               \/ /\ Raise(rl)
                                  /\ errorDialog' \in {dialog, "reloaded"}
                                  /\ UNCHANGED preview_error
    /\ UNCHANGED << engine, req, url, quote, attempt, ticket, checks,
                    placeClicks, confirmSeen, optionVisible >>
    /\ UNCHANGED << loginVars, serviceVars, classifierVars, readerVars >>

\* any(checks)
AllChecks_Any(c) == \E i \in DOMAIN c : c[i]

\* all(checks)
AllChecks(c) == \A i \in DOMAIN c : c[i]

\* the dry flag is not looked at
ShouldSubmit_IgnoreDry(dry) == TRUE

\* if not dry: submit
ShouldSubmit(dry) == ~dry

\* a success that carries a message
DryRunResult_WithMessage ==
    OrderResult(TRUE, Msg("preview_mismatch", "", 0, EmptyText))

\* the value returned for a validated dry run
DryRunResult == OrderResult(TRUE, NoMsg)

\* self._validate_preview(account, stock, action, quantity), and the return
\* of a dry run
ValidatePreview ==
    /\ engine = "sync" /\ pc = "validate"
    /\ stages' = Append(stages, "validate")
    /\ \E c \in [1..4 -> BOOLEAN] :
          /\ checks' = c
          /\ IF ~AllChecks(c)
             THEN Returns(OrderResult(FALSE,
                      Msg("preview_mismatch", "", 0, EmptyText)))
             ELSE IF ShouldSubmit(req.dry)
                  THEN Continue("validate")
                  ELSE Returns(DryRunResult)
    /\ UNCHANGED << engine, req, url, quote, attempt, ticket, previewClicks,
                    placeVisible, preview_error, placeClicks, confirmSeen,
                    reloads,
                    optionVisible,
                    errorDialog >>
    /\ UNCHANGED << loginVars, serviceVars, classifierVars, readerVars >>

\* the expired wait is swallowed and the order reported as placed
SubmitExcept_Swallowed(t) == OrderResult(TRUE, NoMsg)

\* the except clause of _submit_order
SubmitExcept(t) == OrderResult(FALSE, Msg("confirm_timeout", "", 0, t))

\* the click is made once more after an expired wait
ClickAgain_Once(clicks) == clicks < 2

\* _submit_order clicks "Place order" in one statement that no loop
\* surrounds: an expired wait is never followed by another click
ClickAgain(clicks) == FALSE

\* return self._submit_order()
SubmitOrder ==
    /\ engine = "sync" /\ pc = "submit"
    /\ stages' = Append(stages, "submit")
    /\ placeClicks' = placeClicks + 1
    /\ \E o \in Outcomes :
          \* the click on "Place order" raises, outside the try block
          \/ /\ Raise(o)
             /\ UNCHANGED confirmSeen
          \* "Order received" becomes visible
          \/ /\ o = "ok"
             /\ confirmSeen' = TRUE
             /\ Returns(OrderResult(TRUE, NoMsg))
          \* wait_for_loading or the wait for "Order received" expires
          \/ /\ o = "timeout"
             /\ IF ClickAgain(placeClicks')
                THEN UNCHANGED << pc, result, exc >>
                ELSE /\ exc' = "timeout"
                     /\ result' = SubmitExcept(TimeoutText)
                     /\ pc' = "done"
             /\ UNCHANGED confirmSeen
          \* either wait raises another exception
          \/ /\ o = "fault"
             /\ Raise(o)
             /\ UNCHANGED confirmSeen
    /\ UNCHANGED << engine, req, url, quote, attempt, ticket, previewClicks,
                    placeVisible, preview_error, checks, reloads,
                    optionVisible,
                    errorDialog >>
    /\ UNCHANGED << loginVars, serviceVars, classifierVars, readerVars >>

SyncNext ==
    \/ Navigate
    \/ SelectAccount
    \/ EnterSymbol
    \/ ExtendedHours
    \/ SelectAction
    \/ EnterQuantity
    \/ SetOrderType
    \/ PreviewOrder
    \/ ValidatePreview
    \/ SubmitOrder

(***************************************************************************)
(* FidelityClientAsync.transaction                                         *)
(***************************************************************************)
\* the tuple a return statement of the async transaction builds:
\* (True, None), (False, error_text), (False, str(e))
AsyncReturn(r) == << r.success, r.error_message >>

\* except Exception as e: return (False, str(e))
AsyncExcept(t) == OrderResult(FALSE, Msg("exception_text", "", 0, t))

AsyncRaise(o) ==
    /\ o # "ok"
    /\ exc' = o
    /\ \E t \in ExcTexts(o) : result' = AsyncExcept(t)
    /\ pc' = "done"

\* a step of the async pipeline that changes nothing the model keeps but
\* the page: it completes and the next step follows, or it raises
AsyncStep(next) ==
    \E o \in Outcomes :
       \/ o = "ok" /\ pc' = next /\ UNCHANGED << result, exc >>
       \/ AsyncRaise(o)

\* page.goto(URLs.TRADE) and the waits after it
AsyncNavigate ==
    /\ engine = "async" /\ pc = "navigate"
    /\ stages' = Append(stages, "navigate")
    /\ \E o \in Outcomes :
          \/ /\ o = "ok"
             /\ url' = "trade"
             /\ pc' = "select_account"
             /\ UNCHANGED << result, exc >>
          \/ /\ AsyncRaise(o)
             /\ url' \in {url, "trade"}
    /\ UNCHANGED << engine, req, quote, attempt, ticket, preview, reloads,
                    optionVisible,
                    errorDialog >>
    /\ UNCHANGED << loginVars, serviceVars, classifierVars, readerVars >>

\* account_dropdown.click(), account_option.click()
AsyncSelectAccount ==
    /\ engine = "async" /\ pc = "select_account"
    /\ stages' = Append(stages, "select_account")
    /\ AsyncStep("enter_symbol")
    /\ UNCHANGED << engine, req, url, quote, attempt, ticket, preview, reloads,
                    optionVisible,
                    errorDialog >>
    /\ UNCHANGED << loginVars, serviceVars, classifierVars, readerVars >>

\* symbol_input.fill(stock.upper()), Tab, wait_for_loading
AsyncEnterSymbol ==
    /\ engine = "async" /\ pc = "enter_symbol"
    /\ stages' = Append(stages, "enter_symbol")
    /\ \E o \in Outcomes :
          \* the fill raises
          \/ /\ AsyncRaise(o)
             /\ UNCHANGED symbolEntered
          \/ /\ symbolEntered' = Upper(req.stock)
             /\ \/ o = "ok" /\ pc' = "select_action" /\ UNCHANGED << result, exc >>
                \/ AsyncRaise(o)
    /\ UNCHANGED << engine, req, url, quote, attempt, qtyEntered, orderMode,
                    limitEntered, preview, reloads,
                    optionVisible,
                    errorDialog >>
    /\ UNCHANGED << loginVars, serviceVars, classifierVars, readerVars >>

\* action_dropdown.click(), then a click on "Buy" or "Sell"
AsyncSelectAction ==
    /\ engine = "async" /\ pc = "select_action"
    /\ stages' = Append(stages, "select_action")
    /\ AsyncStep("enter_quantity")
    /\ UNCHANGED << engine, req, url, quote, attempt, ticket, preview, reloads,
                    optionVisible,
                    errorDialog >>
    /\ UNCHANGED << loginVars, serviceVars, classifierVars, readerVars >>

\* int(quantity), on quantities counted in half shares
IntQuantity(q) == (q \div 2) * 2

\* qty_input.fill(str(int(quantity)))
AsyncEnterQuantity ==
    /\ engine = "async" /\ pc = "enter_quantity"
    /\ stages' = Append(stages, "enter_quantity")
    /\ \E o \in Outcomes :
          \/ /\ o = "ok"
             /\ qtyEntered' = Some(IntQuantity(req.quantity))
             /\ pc' = "set_order_type"
             /\ UNCHANGED << result, exc >>
          \/ /\ AsyncRaise(o)
             /\ UNCHANGED qtyEntered
    /\ UNCHANGED << engine, req, url, quote, attempt, symbolEntered, orderMode,
                    limitEntered, preview, reloads,
                    optionVisible,
                    errorDialog >>
    /\ UNCHANGED << loginVars, serviceVars, classifierVars, readerVars >>

\* if limit_price: a limit price that is neither None nor 0.0
Truthy(limit_price) == limit_price.some /\ limit_price.v # 0

\* the order type is set only for a limit order
AsyncSetOrderType ==
    /\ engine = "async" /\ pc = "set_order_type"
    /\ stages' = Append(stages, "set_order_type")
    /\ IF Truthy(req.limit_price)
       THEN \E o \in Outcomes :
               \/ /\ o = "ok"
                  /\ orderMode' = "limit"
                  /\ limitEntered' = req.limit_price
                  /\ pc' = "preview"
                  /\ UNCHANGED << result, exc >>
               \/ /\ AsyncRaise(o)
                  /\ orderMode' \in {orderMode, "limit"}
                  /\ UNCHANGED limitEntered
       ELSE /\ pc' = "preview"
            /\ UNCHANGED << result, exc, orderMode, limitEntered >>
    /\ UNCHANGED << engine, req, url, quote, attempt, symbolEntered, qtyEntered,
                    preview, reloads,
                    optionVisible,
                    errorDialog >>
    /\ UNCHANGED << loginVars, serviceVars, classifierVars, readerVars >>

\* the click on "Preview order", the error check and the return of a dry run
AsyncPreview ==
    /\ engine = "async" /\ pc = "preview"
    /\ stages' = Append(stages, "preview")
    /\ previewClicks' = previewClicks + 1
    /\ \E o \in Outcomes, error_visible \in BOOLEAN :
          \* the click, a wait or inner_text raises
          \/ AsyncRaise(o)
          \* an error element is visible: return (False, error_text)
          \/ /\ o = "ok" /\ error_visible
             /\ \E error_text \in ErrorTexts :
                   Returns(OrderResult(FALSE,
                       Msg("page_text", "", 0, error_text)))
          \/ /\ o = "ok" /\ ~error_visible
             /\ IF req.dry
                THEN Returns(OrderResult(TRUE, NoMsg))
                ELSE /\ pc' = "submit"
                     /\ UNCHANGED << result, exc >>
    /\ UNCHANGED << engine, req, url, quote, attempt, ticket, placeVisible,
                    preview_error, checks, placeClicks, confirmSeen, reloads,
                    optionVisible,
                    errorDialog >>
    /\ UNCHANGED << loginVars, serviceVars, classifierVars, readerVars >>

\* submit_btn.click() and the check for a confirmation
AsyncSubmit ==
    /\ engine = "async" /\ pc = "submit"
    /\ stages' = Append(stages, "submit")
    /\ placeClicks' = placeClicks + 1
    /\ \E o \in Outcomes, confirmed \in BOOLEAN :
          \/ /\ AsyncRaise(o)
             /\ UNCHANGED confirmSeen
          \/ /\ o = "ok" /\ confirmed
             /\ confirmSeen' = TRUE
             /\ Returns(OrderResult(TRUE, NoMsg))
          \/ /\ o = "ok" /\ ~confirmed
             /\ Returns(OrderResult(FALSE, Msg("not_placed", "", 0, EmptyText)))
             /\ UNCHANGED confirmSeen
    /\ UNCHANGED << engine, req, url, quote, attempt, ticket, previewClicks,
                    placeVisible, preview_error, checks, reloads,
                    optionVisible,
                    errorDialog >>
    /\ UNCHANGED << loginVars, serviceVars, classifierVars, readerVars >>

AsyncNext ==
    \/ AsyncNavigate
    \/ AsyncSelectAccount
    \/ AsyncEnterSymbol
    \/ AsyncSelectAction
    \/ AsyncEnterQuantity
    \/ AsyncSetOrderType
    \/ AsyncPreview
    \/ AsyncSubmit

Next ==
    \/ Call
    \/ Return
    \/ SyncNext
    \/ AsyncNext

Spec == Init /\ [][Next]_vars

\* a call of transaction that has begun goes on: the interpreter runs the
\* next statement, and every wait on the page completes or expires
LiveSpec == Spec /\ WF_vars(SyncNext)

(***************************************************************************)
(* FidelityClientAsync.login                                               *)
(***************************************************************************)
\* only the sentinel is kept: every secret but "NA" becomes None
NormalizeSecret_Identity(secret) == secret

\* if totp_secret == "NA": totp_secret = None
NormalizeSecret(secret) == IF secret = Some("NA") THEN None ELSE secret

\* the truth value of totp_secret: None and the empty string are false
TruthySecret(secret) == secret.some /\ secret.v # ""

\* the TOTP prompt is not looked at
UseTotp_IgnorePrompt(secret, visible) == TruthySecret(secret)

\* if totp_secret and await totp_heading.is_visible()
UseTotp(secret, visible) == TruthySecret(secret) /\ visible

\* only the clause for PlaywrightTimeoutError: any other exception leaves
\* login
LoginExcept_TimeoutOnly(o) ==
    IF o = "timeout" THEN LoginResult(FALSE, FALSE) ELSE LoginPropagates

\* the except clauses report the second step as done
LoginExcept_FalseTrue(o) == LoginResult(FALSE, TRUE)

\* the two except clauses of login
LoginExcept(o) == LoginResult(FALSE, FALSE)

\* the summary is looked for after the login page
AfterCredentials_LoginFirst(loc) ==
    IF loc.login THEN "handle_2fa"
    ELSE IF loc.summary THEN "authenticated"
    ELSE "rejected"

\* what login does with the location the credentials led to: lines 118-129
AfterCredentials(loc) ==
    IF loc.summary THEN "authenticated"
    ELSE IF loc.login THEN "handle_2fa"
    ELSE "rejected"

\* the actions of a script done when one of them raised: those before it
Before(script) == { SubSeq(script, 1, k) : k \in 0..(Len(script) - 1) }

\* a step of login raises: the except clauses build the pair and login ends
LoginRaise(o) ==
    /\ o # "ok"
    /\ lexc' = o
    /\ lresult' = LoginExcept(o)
    /\ lpc' = "done"

LoginReturns(r) ==
    /\ lresult' = r
    /\ lpc' = "done"
    /\ UNCHANGED lexc

LoginContinue(next) ==
    /\ lpc' = next
    /\ UNCHANGED << lexc, lresult >>

\* a caller invokes login(username, password, totp_secret, save_device)
LoginCall ==
    /\ lpc = "idle"
    /\ \E r \in LoginRequests :
          /\ lreq' = r
          /\ totp_secret' = r.totp_secret
    /\ lpc' = "credentials"
    /\ UNCHANGED << location, totpVisible, tryVisible, ui, lsteps, lexc,
                    lresult >>
    /\ UNCHANGED << txVars, serviceVars, classifierVars, readerVars >>

\* login has returned its pair to the caller
LoginReturn ==
    /\ lpc = "done"
    /\ lpc' = "idle"
    /\ lreq' = NoLoginRequest
    /\ totp_secret' = None
    /\ location' = NoLocation
    /\ totpVisible' = FALSE
    /\ tryVisible' = FALSE
    /\ ui' = << >>
    /\ lsteps' = << >>
    /\ lexc' = "none"
    /\ lresult' = NoLogin
    /\ UNCHANGED << txVars, serviceVars, classifierVars, readerVars >>

\* the UI actions of lines 97-110
CredentialScript ==
    << "goto_login", "fill_username", "fill_password", "click_log_in" >>

\* lines 94-115: the login page is opened, the credentials are filled in
\* and submitted, and the loading indicators are waited for
SubmitCredentials ==
    /\ lpc = "credentials"
    /\ lsteps' = Append(lsteps, "credentials")
    /\ \E o \in Outcomes :
          \/ /\ o = "ok"
             /\ ui' = ui \o CredentialScript
             /\ LoginContinue("location")
          \* an action raises, or a wait after the last action does
          \/ /\ LoginRaise(o)
             /\ \E done \in Before(CredentialScript) \cup {CredentialScript} :
                   ui' = ui \o done
    /\ UNCHANGED << lreq, totp_secret, location, totpVisible, tryVisible >>
    /\ UNCHANGED << txVars, serviceVars, classifierVars, readerVars >>

\* lines 117-129: page.url is examined and the sentinel "NA" replaced
CheckLocation ==
    /\ lpc = "location"
    /\ lsteps' = Append(lsteps, "location")
    /\ \E loc \in Locations :
          /\ location' = loc
          /\ LET to == AfterCredentials(loc)
             IN  /\ totp_secret' = IF to = "authenticated" THEN totp_secret
                                   ELSE NormalizeSecret(totp_secret)
                 /\ CASE to = "authenticated" ->
                            LoginReturns(LoginResult(TRUE, TRUE))
                      [] to = "handle_2fa" -> LoginContinue("handle_2fa")
                      [] OTHER -> LoginReturns(LoginResult(FALSE, FALSE))
    /\ UNCHANGED << lreq, totpVisible, tryVisible, ui >>
    /\ UNCHANGED << txVars, serviceVars, classifierVars, readerVars >>

\* _handle_2fa, lines 145-154: the login widget is waited for and the TOTP
\* prompt is probed
Handle2fa ==
    /\ lpc = "handle_2fa"
    /\ lsteps' = Append(lsteps, "handle_2fa")
    /\ \E o \in Outcomes, visible \in BOOLEAN :
          \/ /\ LoginRaise(o)
             /\ UNCHANGED totpVisible
          \/ /\ o = "ok"
             /\ totpVisible' = visible
             /\ LoginContinue(IF UseTotp(totp_secret, visible)
                              THEN "totp" ELSE "sms")
    /\ UNCHANGED << lreq, totp_secret, location, tryVisible, ui >>
    /\ UNCHANGED << txVars, serviceVars, classifierVars, readerVars >>

\* the UI actions of _complete_totp_login, lines 177-184
TotpScript(save_device) ==
    << "click_totp_input", "fill_totp_code" >>
    \o (IF save_device THEN << "check_save_device" >> ELSE << >>)
    \o << "click_continue" >>

\* _complete_totp_login, lines 174-184: the code is computed from the
\* secret, entered and submitted
EnterTotp ==
    /\ lpc = "totp"
    /\ lsteps' = Append(lsteps, "totp")
    /\ \E o \in Outcomes :
          \/ /\ o = "ok"
             /\ ui' = ui \o TotpScript(lreq.save_device)
             /\ LoginContinue("await_summary")
          \* pyotp or an action raises
          \/ /\ LoginRaise(o)
             /\ \E done \in Before(TotpScript(lreq.save_device)) :
                   ui' = ui \o done
    /\ UNCHANGED << lreq, totp_secret, location, totpVisible, tryVisible >>
    /\ UNCHANGED << txVars, serviceVars, classifierVars, readerVars >>

\* _complete_totp_login, lines 185-188: the loading indicators and then the
\* summary page are waited for
AwaitSummary ==
    /\ lpc = "await_summary"
    /\ lsteps' = Append(lsteps, "await_summary")
    /\ \E o \in Outcomes :
          \/ /\ o = "ok"
             /\ LoginReturns(LoginResult(TRUE, TRUE))
          \/ LoginRaise(o)
    /\ UNCHANGED << lreq, totp_secret, location, totpVisible, tryVisible,
                    ui >>
    /\ UNCHANGED << txVars, serviceVars, classifierVars, readerVars >>

\* the UI actions of the SMS path, lines 157-164
SmsScript(visible, save_device) ==
    (IF visible
     THEN (IF save_device THEN << "check_save_device" >> ELSE << >>)
          \o << "click_try_another" >>
     ELSE << >>)
    \o << "click_text_me", "click_code_input" >>

\* _handle_2fa, lines 156-166: "Try another way" is taken when it is
\* shown, a text message is asked for and the input is focused
SmsFallback ==
    /\ lpc = "sms"
    /\ lsteps' = Append(lsteps, "sms")
    /\ \E o \in Outcomes, visible \in BOOLEAN :
          /\ tryVisible' = visible
          /\ \/ /\ o = "ok"
                /\ ui' = ui \o SmsScript(visible, lreq.save_device)
                /\ LoginReturns(LoginResult(TRUE, FALSE))
             \/ /\ LoginRaise(o)
                /\ \E done \in Before(SmsScript(visible, lreq.save_device)) :
                      ui' = ui \o done
    /\ UNCHANGED << lreq, totp_secret, location, totpVisible >>
    /\ UNCHANGED << txVars, serviceVars, classifierVars, readerVars >>

LoginNext ==
    \/ LoginCall
    \/ LoginReturn
    \/ SubmitCredentials
    \/ CheckLocation
    \/ Handle2fa
    \/ EnterTotp
    \/ AwaitSummary
    \/ SmsFallback

LoginSpec == Init /\ [][LoginNext]_vars

(***************************************************************************)
(* The service facade: trader-worker/main.py and TraderService.  The       *)
(* handlers of the worker are coroutines of one event loop and call the    *)
(* client synchronously; the methods of TraderService are called one at a  *)
(* time.  FidelityClient is used through login, transaction,               *)
(* getAccountInfo and close_browser.                                       *)
(***************************************************************************)
AllSet ==
    [ username |-> TRUE, password |-> TRUE, totp_secret |-> TRUE,
      default_account |-> TRUE ]

\* the environments the service is started in
Configs ==
    { AllSet,
      [AllSet EXCEPT !.default_account = FALSE],
      [AllSet EXCEPT !.username = FALSE],
      [AllSet EXCEPT !.password = FALSE],
      [AllSet EXCEPT !.totp_secret = FALSE] }

\* the endpoints of the worker that take an API key, the methods of
\* TraderService
Kinds(h) ==
    IF h = "worker" THEN {"trade", "accounts", "refresh"}
    ELSE {"trade", "accounts", "refresh", "authenticate", "close"}

\* the TOTP secret is not asked for
HasCredentials_NoTotp(c) == c.username /\ c.password

\* all([FIDELITY_USERNAME, FIDELITY_PASSWORD, FIDELITY_TOTP_SECRET])
HasCredentials(c) == c.username /\ c.password /\ c.totp_secret

\* every key is taken
KeyAccepted_Always(key_ok) == TRUE

\* verify_api_key: x_api_key != API_SECRET raises HTTPException(401)
KeyAccepted(key_ok) == key_ok

\* the first step of login is enough
Authenticated_StepOne(pair) == pair.step1

\* _authenticated = step1 and step2
Authenticated(pair) == pair.step1 /\ pair.step2

\* a handler starts while another one runs
LoopFree_Always == TRUE

\* a handler starts while a transaction waits on the page
LoopFree_WhileWaiting == hpc \in {"idle", "tx_end"}

\* a handler runs from its first statement to its response without an
\* await: the event loop starts the next one only after that
LoopFree == hpc = "idle"

\* the pairs FidelityClient.login returns
LoginPairs ==
    { LoginResult(TRUE, TRUE), LoginResult(TRUE, FALSE),
      LoginResult(FALSE, FALSE) }

\* how FidelityClient.transaction ends: (True, None), (False, message),
\* (False, None) or an exception
TransactionOutcomes == {"success", "failed", "failed_none", "raise"}

Event(i, w, c) == [id |-> i, what |-> w, client |-> c]

Response(h, st, ok, m, f) ==
    [ id |-> h.id, kind |-> h.kind, status |-> st, raised |-> FALSE,
      success |-> ok, message |-> m, fields |-> f ]

\* raise HTTPException(status_code=st, ...): the body holds detail only
HttpError(h, st) == Response(h, st, FALSE, "", {"detail"})

\* the fields of TradeResponse, and the tuple TraderService returns
TradeFields ==
    IF host = "worker" THEN {"success", "message", "order_id", "details"}
    ELSE {"success", "message", "details"}

\* get_client() / TraderService.client on the client number c, created
\* being the clients constructed so far: the client to use
GetClient(c, n) == IF c = 0 THEN n + 1 ELSE c

\* ensure_authenticated() / TraderService.authenticate(), login returning
\* pair when it is called: the value returned (ok) and the state left
EnsureAuthenticated(pair) ==
    IF authenticated
    THEN [ ok |-> TRUE, client |-> client, authenticated |-> TRUE,
           logins |-> << >>, events |-> << >> ]
    ELSE IF ~HasCredentials(config)
    THEN [ ok |-> FALSE, client |-> client, authenticated |-> FALSE,
           logins |-> << >>, events |-> << >> ]
    ELSE LET c == GetClient(client, created)
         IN  [ ok |-> Authenticated(pair), client |-> c,
               authenticated |-> Authenticated(pair),
               logins |-> << pair >>,
               events |->
                  (IF client = 0 THEN << Event(handler.id, "create", c) >>
                   ELSE << >>)
                  \o << Event(handler.id, "login", c) >> ]

\* the state a call of ensure_authenticated leaves, then the events more
Apply(e, more) ==
    /\ client' = e.client
    /\ created' = IF e.client # client /\ client = 0 THEN created + 1
                  ELSE created
    /\ authenticated' = e.authenticated
    /\ logins' = logins \o e.logins
    /\ events' = events \o e.events \o more

\* the handler ends with a response
Finish(resp) ==
    /\ response' = resp
    /\ handler' = NoHandler
    /\ hpc' = "idle"

\* the process starts: the settings are read from the environment
Start ==
    /\ host = "none"
    /\ \E h \in {"worker", "service"}, c \in Configs :
          /\ host' = h
          /\ config' = c
          /\ hpc' = IF h = "worker" THEN "lifespan" ELSE "idle"
    /\ UNCHANGED << client, authenticated, created, closed, waiting, handler,
                    logins, events, response, arrived, mark >>
    /\ UNCHANGED << txVars, loginVars, classifierVars, readerVars >>

\* lifespan, start-up: authentication is tried when the credentials are set
Lifespan ==
    /\ host = "worker" /\ hpc = "lifespan"
    /\ \E pair \in LoginPairs : Apply(EnsureAuthenticated(pair), << >>)
    /\ hpc' = "idle"
    /\ UNCHANGED << host, config, closed, waiting, handler, response,
                    arrived, mark >>
    /\ UNCHANGED << txVars, loginVars, classifierVars, readerVars >>

\* a request arrives, whatever the service is doing
Arrive ==
    /\ host # "none" /\ hpc # "lifespan"
    /\ arrived < MaxRequests
    /\ \E k \in Kinds(host) :
          waiting' = waiting \cup {[kind |-> k, id |-> arrived + 1]}
    /\ arrived' = arrived + 1
    /\ UNCHANGED << host, config, client, authenticated, created, closed,
                    handler, hpc, logins, events, response, mark >>
    /\ UNCHANGED << txVars, loginVars, classifierVars, readerVars >>

\* the handler of a waiting request starts
Dispatch ==
    /\ LoopFree
    /\ \E w \in waiting :
       \E key \in IF host = "worker" THEN BOOLEAN ELSE {TRUE},
          acct \in IF w.kind = "trade" THEN BOOLEAN ELSE {FALSE},
          dry \in IF w.kind = "trade" THEN BOOLEAN ELSE {TRUE} :
          /\ handler' = [ kind |-> w.kind, id |-> w.id, key_ok |-> key,
                          account |-> acct, dry_run |-> dry ]
          /\ waiting' = waiting \ {w}
          /\ hpc' = IF host = "worker" THEN "verify" ELSE w.kind
    /\ logins' = << >>
    /\ events' = << >>
    /\ response' = NoResponse
    /\ UNCHANGED << host, config, client, authenticated, created, closed,
                    arrived, mark >>
    /\ UNCHANGED << txVars, loginVars, classifierVars, readerVars >>

\* Depends(verify_api_key)
VerifyKey ==
    /\ hpc = "verify"
    /\ IF KeyAccepted(handler.key_ok)
       THEN /\ hpc' = handler.kind
            /\ UNCHANGED << handler, response >>
       ELSE Finish(HttpError(handler, 401))
    /\ UNCHANGED << host, config, client, authenticated, created, closed,
                    waiting, logins, events, arrived, mark >>
    /\ UNCHANGED << txVars, loginVars, classifierVars, readerVars >>

\* a transaction is attempted with no account
TargetAccount_Any(h, c) == TRUE

\* account = request.account or DEFAULT_ACCOUNT: whether it is non-empty
TargetAccount(h, c) == h.account \/ c.default_account

\* execute_trade up to the transaction: authentication and the account
TradeAuth ==
    /\ hpc = "trade"
    /\ \E pair \in LoginPairs :
          LET e == EnsureAuthenticated(pair)
          IN  /\ Apply(e, << >>)
              /\ IF ~e.ok
                 THEN Finish(IF host = "worker" THEN HttpError(handler, 503)
                             ELSE Response(handler, 0, FALSE,
                                      "Not authenticated with Fidelity",
                                      TradeFields))
                 ELSE IF ~TargetAccount(handler, config)
                 THEN Finish(IF host = "worker" THEN HttpError(handler, 400)
                             ELSE Response(handler, 0, FALSE,
                                      "No account specified", TradeFields))
                 ELSE /\ hpc' = "tx_begin"
                      /\ UNCHANGED << handler, response >>
    /\ UNCHANGED << host, config, closed, waiting, arrived, mark >>
    /\ UNCHANGED << txVars, loginVars, classifierVars, readerVars >>

\* client.transaction(...) is called: its first UI action
TxBegin ==
    /\ hpc = "tx_begin"
    /\ client' = GetClient(client, created)
    /\ created' = IF client = 0 THEN created + 1 ELSE created
    /\ events' = events \o << Event(handler.id, "tx_begin", client') >>
    /\ hpc' = "tx_end"
    /\ UNCHANGED << host, config, authenticated, closed, waiting, handler,
                    logins, response, arrived, mark >>
    /\ UNCHANGED << txVars, loginVars, classifierVars, readerVars >>

\* a transaction that raised ends the session
SessionAfter_DropOnFault(o) ==
    [ client |-> client,
      authenticated |-> IF o = "raise" THEN FALSE ELSE authenticated ]

\* _client and _authenticated after client.transaction(...) ended with o:
\* neither the branches on success nor the except clause assign them
SessionAfter(o) == [ client |-> client, authenticated |-> authenticated ]

\* client.transaction(...) ends, after its last UI action, and the
\* response is built
TxEnd ==
    /\ hpc = "tx_end"
    /\ events' = events \o << Event(handler.id, "tx_end", client) >>
    /\ \E o \in TransactionOutcomes :
        /\ client' = SessionAfter(o).client
        /\ authenticated' = SessionAfter(o).authenticated
        /\ Finish(
            CASE o = "success" ->
                   Response(handler, IF host = "worker" THEN 200 ELSE 0, TRUE,
                      IF handler.dry_run THEN "Trade previewed successfully"
                      ELSE "Trade executed successfully", TradeFields)
              [] o = "failed" ->
                   Response(handler, IF host = "worker" THEN 200 ELSE 0,
                      FALSE, "error_message", TradeFields)
              [] o = "failed_none" ->
                   Response(handler, IF host = "worker" THEN 200 ELSE 0,
                      FALSE, "Trade failed", TradeFields)
              [] OTHER ->
                   IF host = "worker" THEN HttpError(handler, 500)
                   ELSE Response(handler, 0, FALSE, "Trade execution error",
                           TradeFields))
    /\ UNCHANGED << host, config, created, closed, waiting, logins, arrived,
                    mark >>
    /\ UNCHANGED << txVars, loginVars, classifierVars, readerVars >>

\* get_accounts
AccountsRequest ==
    /\ hpc = "accounts"
    /\ \E pair \in LoginPairs, o \in {"ok", "raise"} :
          LET e == EnsureAuthenticated(pair)
          IN  IF ~e.ok
              THEN /\ Apply(e, << >>)
                   /\ Finish(IF host = "worker" THEN HttpError(handler, 503)
                             ELSE Response(handler, 0, FALSE, "", {}))
              ELSE /\ Apply(e, << Event(handler.id, "accounts", e.client) >>)
                   /\ Finish(IF host = "worker" /\ o = "raise"
                             THEN HttpError(handler, 500)
                             ELSE Response(handler,
                                     IF host = "worker" THEN 200 ELSE 0,
                                     o = "ok", "", {"accounts"}))
    /\ UNCHANGED << host, config, closed, waiting, arrived, mark >>
    /\ UNCHANGED << txVars, loginVars, classifierVars, readerVars >>

\* refresh_session, lines 302-306, and TraderService.close: the client is
\* closed and dropped, the flag cleared
RefreshClose ==
    /\ hpc = "refresh"
    /\ mark' = created
    /\ IF client # 0
       THEN /\ closed' = closed \cup {client}
            /\ events' = events \o << Event(handler.id, "close", client) >>
       ELSE UNCHANGED << closed, events >>
    /\ client' = 0
    /\ authenticated' = FALSE
    /\ hpc' = "refresh_auth"
    /\ UNCHANGED << host, config, created, waiting, handler, logins,
                    response, arrived >>
    /\ UNCHANGED << txVars, loginVars, classifierVars, readerVars >>

\* refresh_session, lines 309-312, and the authenticate() of refresh
RefreshAuth ==
    /\ hpc = "refresh_auth"
    /\ \E pair \in LoginPairs :
          LET e == EnsureAuthenticated(pair)
          IN  /\ Apply(e, << >>)
              /\ Finish(IF host = "worker" /\ ~e.ok
                        THEN HttpError(handler, 503)
                        ELSE Response(handler,
                                IF host = "worker" THEN 200 ELSE 0, e.ok,
                                IF host = "worker" THEN "Session refreshed"
                                ELSE "", {"success", "message"}))
    /\ UNCHANGED << host, config, closed, waiting, arrived, mark >>
    /\ UNCHANGED << txVars, loginVars, classifierVars, readerVars >>

\* TraderService.close() called by the user of the service
Close ==
    /\ hpc = "close"
    /\ IF client # 0
       THEN /\ closed' = closed \cup {client}
            /\ events' = events \o << Event(handler.id, "close", client) >>
       ELSE UNCHANGED << closed, events >>
    /\ client' = 0
    /\ authenticated' = FALSE
    /\ Finish(Response(handler, 0, TRUE, "", {}))
    /\ UNCHANGED << host, config, created, waiting, logins, arrived, mark >>
    /\ UNCHANGED << txVars, loginVars, classifierVars, readerVars >>

\* TraderService.authenticate() called by the user of the service
Authenticate ==
    /\ hpc = "authenticate"
    /\ \E pair \in LoginPairs :
          LET e == EnsureAuthenticated(pair)
          IN  /\ Apply(e, << >>)
              /\ Finish(Response(handler, 0, e.ok, "", {}))
    /\ UNCHANGED << host, config, closed, waiting, arrived, mark >>
    /\ UNCHANGED << txVars, loginVars, classifierVars, readerVars >>

ServiceNext ==
    \/ Start
    \/ Lifespan
    \/ Arrive
    \/ Dispatch
    \/ VerifyKey
    \/ TradeAuth
    \/ TxBegin
    \/ TxEnd
    \/ AccountsRequest
    \/ RefreshClose
    \/ RefreshAuth
    \/ Close
    \/ Authenticate

ServiceSpec == Init /\ [][ServiceNext]_vars

(***************************************************************************)
(* Alert codes.                                                            *)
(***************************************************************************)
AlertCodes ==
    { "SUCCESS", "NO_POSITION", "INSUFFICIENT_FUNDS", "MARKET_CLOSED",
      "ORDER_REJECTED", "TIMEOUT", "UNKNOWN" }

\* the text of a message: the literal words of its format string and the
\* text interpolated into them
MessageText(m) ==
    CASE m.kind = "None"              -> EmptyText
      [] m.kind = "timeout_during"    -> <<"timeout", "sp">> \o m.text
      [] m.kind = "confirm_timeout"   -> <<"timeout", "sp">> \o m.text
      [] m.kind = "transaction_error" -> <<"w", "sp">> \o m.text
      [] m.kind = "preview_error"     -> m.text
      [] m.kind = "page_text"         -> m.text
      [] m.kind = "exception_text"    -> m.text
      [] m.kind = "exception"         -> m.text
      [] OTHER                        -> <<"w">>

Contains(t, phrase) == \E i \in 1..Len(t) : t[i] = phrase

\* str.lower() of a text
LowerText(t) == [i \in 1..Len(t) |-> Lower(t[i])]

\* insufficient funds is looked for before no position
classify_error_FundsFirst(t) ==
    LET s == LowerText(t)
    IN  IF Contains(s, "insufficient") THEN "INSUFFICIENT_FUNDS"
        ELSE IF Contains(s, "noshares") THEN "NO_POSITION"
        ELSE IF Contains(s, "closed") THEN "MARKET_CLOSED"
        ELSE IF Contains(s, "timeout") THEN "TIMEOUT"
        ELSE IF s # EmptyText THEN "ORDER_REJECTED"
        ELSE "UNKNOWN"

\* the error classifier: the text is lower-cased and the phrases are
\* looked for in order of precedence
classify_error(t) ==
    LET s == LowerText(t)
    IN  IF Contains(s, "noshares") THEN "NO_POSITION"
        ELSE IF Contains(s, "insufficient") THEN "INSUFFICIENT_FUNDS"
        ELSE IF Contains(s, "closed") THEN "MARKET_CLOSED"
        ELSE IF Contains(s, "timeout") THEN "TIMEOUT"
        ELSE IF s # EmptyText THEN "ORDER_REJECTED"
        ELSE "UNKNOWN"

\* the alert a caller derives from an outcome: SUCCESS for a success, else
\* classify_error(error_message or "")
AlertOf(r) ==
    IF r.success THEN "SUCCESS" ELSE classify_error(MessageText(r.error_message))

(***************************************************************************)
(* The error classifier applied to any message.                            *)
(***************************************************************************)
\* the words of a message: the phrases the classifier knows in lower and
\* in mixed case, any other word, a space
Words ==
    { "noshares", "NoShares", "insufficient", "INSUFFICIENT", "closed",
      "Closed", "timeout", "Timeout", "w", "sp" }

\* the messages of at most MaxWords words, the empty one among them
Messages == UNION { [1..n -> Words] : n \in 0..MaxWords }

ClassifyInit ==
    /\ LoginInit /\ ServiceInit /\ TxInit /\ ReaderInit
    /\ message \in Messages
    /\ alert = "none"

\* alert = classify_error(message)
Classify ==
    /\ alert = "none"
    /\ alert' = classify_error(message)
    /\ UNCHANGED << message, txVars, loginVars, serviceVars, readerVars >>

ClassifySpec == ClassifyInit /\ [][Classify]_vars

(***************************************************************************)
(* The portfolio reader: FidelityClientAsync.get_account_info and          *)
(* Account.  Amounts are in cents.  A position row is what its cells give: *)
(* ok is FALSE when a cell cannot be read or parsed or the ticker is       *)
(* empty, else value is the number parsed from the value cell.             *)
(***************************************************************************)
\* the values a value cell may hold: -5.00 (a short position), 0.00, 12.50
Values == {-500, 0, 1250}

\* the account containers of the page, by position
Holders == {1, 2}

BadRow == [ok |-> FALSE, value |-> 0]

\* owner is the account container in which the page shows the row
Cells ==
    {BadRow} \cup
    {[ok |-> TRUE, value |-> v, owner |-> i] : v \in Values, i \in Holders}

PositionRows == UNION { [1..n -> Cells] : n \in 0..MaxRows }

\* Stock(ticker, quantity, last_price, value): the value field
Stock(v) == [value |-> v]

\* total_value += value
Accumulate(total, v) == total + v

\* the inner loop of get_account_info over the position rows rs: a row
\* that raises is skipped, any other is appended and its value added
ReadPositions(rs) ==
    LET F[i \in 0..Len(rs)] ==
            IF i = 0 THEN [stocks |-> << >>, total_value |-> 0]
            ELSE IF ~rs[i].ok THEN F[i - 1]
            ELSE [stocks |-> Append(F[i - 1].stocks, Stock(rs[i].value)),
                  total_value |-> Accumulate(F[i - 1].total_value,
                                             rs[i].value)]
    IN  F[Len(rs)]

AccountInit ==
    /\ LoginInit /\ ServiceInit /\ TxInit /\ ClassifierInit
    /\ rows \in PositionRows
    /\ account = NoAccount

\* position_rows = page.locator(Selectors.POSITION_ROW): the rows the inner
\* loop reads for the account container i are the position rows of the page
RowsFor(rs, i) == rs

\* accounts[acc_num] = Account(account_number=acc_num, balance=total_value,
\* stocks=stocks) for the account container i; account is one of the
\* accounts returned
GetAccountInfo ==
    /\ ~account.made
    /\ \E i \in Holders :
          LET r == ReadPositions(RowsFor(rows, i))
          IN  account' = [made |-> TRUE, by |-> "get_account_info",
                          number |-> i, balance |-> r.total_value,
                          stocks |-> r.stocks]
    /\ UNCHANGED << rows, txVars, loginVars, serviceVars, classifierVars >>

\* Account(account_number): balance 0.0 and no stocks
NewAccount ==
    /\ ~account.made
    /\ \E i \in Holders :
          account' = [made |-> TRUE, by |-> "Account", number |-> i,
                      balance |-> 0, stocks |-> << >>]
    /\ UNCHANGED << rows, txVars, loginVars, serviceVars, classifierVars >>

\* account.add_stock(stock)
AddStock ==
    /\ account.made
    /\ Len(account.stocks) < MaxRows
    /\ \E v \in Values :
          account' = [account EXCEPT !.stocks = Append(@, Stock(v)),
                                     !.balance = @ + v]
    /\ UNCHANGED << rows, txVars, loginVars, serviceVars, classifierVars >>

AccountNext ==
    \/ GetAccountInfo
    \/ NewAccount
    \/ AddStock

AccountSpec == AccountInit /\ [][AccountNext]_vars

(***************************************************************************)
(* Properties.                                                             *)
(***************************************************************************)
\* the last stage run
LastStage == IF stages = << >> THEN "none" ELSE stages[Len(stages)]

Ran(stage) == \E i \in 1..Len(stages) : stages[i] = stage

IsPrefix(s, t) == Len(s) <= Len(t) /\ \A i \in 1..Len(s) : s[i] = t[i]

\* C1: in a call with dry=True, of either engine, "Place order" is never
\* clicked and the submit stage is never entered, whatever the page shows
C1_DryRunNeverSubmits ==
    (pc # "idle" /\ req.dry) =>
        placeClicks = 0 /\ pc # "submit" /\ ~Ran("submit")

\* a dry run of FidelityTrading in which "Place order" was visible and all
\* checks held has returned
C1_Witness ==
    /\ engine = "sync" /\ pc = "done" /\ req.dry
    /\ placeVisible /\ Len(checks) = 4 /\ result.success

\* C2: in FidelityTrading.transaction "Place order" is clicked only after the
\* preview step reported no error and all four checks held; when a check
\* fails the call returns success=false with the mismatch message and does
\* not submit
C2_SubmitOnlyAfterValidatedPreview ==
    engine = "sync" =>
        /\ placeClicks > 0 =>
              /\ Ran("preview")
              /\ ~(preview_error.some /\ preview_error.text # EmptyText)
              /\ Len(checks) = 4
              /\ \A i \in 1..4 : checks[i]
        /\ (Len(checks) = 4 /\ \E i \in 1..4 : ~checks[i]) =>
              /\ pc = "done"
              /\ result.ret /\ ~result.raised /\ ~result.success
              /\ result.error_message.kind = "preview_mismatch"
              /\ placeClicks = 0

\* exactly one check failed and the call has returned
C2_Witness ==
    /\ engine = "sync" /\ pc = "done" /\ ~req.dry
    /\ Len(checks) = 4 /\ ~checks[4] /\ \A i \in 1..3 : checks[i]

\* C3: no exception leaves transaction: an exception that ends a stage is
\* turned into a returned result with success=false
C3_NeverRaises ==
    /\ result.ret => ~result.raised
    /\ exc # "none" =>
          pc = "done" /\ result.ret /\ ~result.raised /\ ~result.success

\* an exception other than a timeout ended the submit stage
C3_Witness ==
    /\ engine = "sync" /\ exc = "fault" /\ LastStage = "submit"
    /\ result.ret

C5_Order ==
    << "navigate", "select_account", "enter_symbol", "extended_hours",
       "select_action", "enter_quantity", "set_order_type", "preview",
       "validate", "submit" >>

C5_Terminal ==
    \/ ~result.success
    \/ /\ result.success /\ ~req.dry /\ confirmSeen
       /\ stages = C5_Order
    \/ /\ result.success /\ req.dry
       /\ stages = SubSeq(C5_Order, 1, 9)

\* C5: the stages of FidelityTrading.transaction run in the fixed order; a
\* call ends only as Failed, Confirmed or Validated-dry-run; a failure ends
\* the call, and no stage runs once the call has ended
C5_StagesInOrder ==
    /\ [](engine = "sync" =>
            /\ IsPrefix(stages, C5_Order)
            /\ result.ret <=> pc = "done"
            /\ pc = "done" => C5_Terminal)
    /\ [][pc = "done" => (pc' = "idle" /\ stages' = << >>)]_vars

\* the call failed in the preview stage, after seven stages had run
C5_Witness ==
    /\ engine = "sync" /\ pc = "done" /\ ~result.success
    /\ Len(stages) = 8 /\ LastStage = "preview"

C7_OrderMode ==
    (engine = "sync" /\ orderMode # "none") =>
        /\ orderMode \in {"limit", "market"}
        /\ orderMode = "limit" <=>
              (last_price < 10000 \/ extended \/ req.limit_price.some)
        /\ last_price = 7500 => orderMode = "limit"
        /\ extended => orderMode = "limit"
        /\ (last_price = 100000 /\ ~extended /\ ~req.limit_price.some) =>
              orderMode = "market"

\* a limit order for the penny-stock rule alone
C7_Witness ==
    /\ engine = "sync" /\ orderMode = "limit" /\ last_price = 7500
    /\ ~extended /\ ~req.limit_price.some

\* the multiples of u nearest to x
Nearest(x, u) ==
    { m \in {(x \div u) * u, (x \div u + 1) * u} :
        2 * (IF x >= m THEN x - m ELSE m - x) <= u }

\* C8: without an explicit limit price the price entered is
\* round(last price + inc, precision) for a buy and
\* round(last price - inc, precision) for a sell, with inc 0.01 above 0.10
\* and 0.0001 otherwise, and precision 2 with extended hours, else 3; an
\* explicit limit price is entered unchanged
C8_LimitPriceFormula ==
    (engine = "sync" /\ limitEntered.some) =>
        IF req.limit_price.some
        THEN limitEntered.v = req.limit_price.v
        ELSE LET inc  == IF last_price > 1000 THEN 100 ELSE 1
                 prec == IF extended THEN 2 ELSE 3
                 x    == IF req.action \in {"buy", "BUY", "Buy"}
                         THEN last_price + inc ELSE last_price - inc
             IN  /\ precision = prec
                 /\ limitEntered.v \in Nearest(x, IF prec = 2 THEN 100 ELSE 10)

\* a buy at exactly 0.10 uses the increment 0.0001, which the rounding to
\* three decimals removes
C8_Witness ==
    /\ engine = "sync" /\ limitEntered = Some(1000) /\ last_price = 1000
    /\ req.action = "buy" /\ ~extended /\ ~req.limit_price.some

C9_Case1 ==
    /\ engine = "sync" /\ limitEntered.some /\ ~req.limit_price.some
    /\ last_price = 5000 /\ req.action = "buy" /\ precision = 3

C9_Case2 ==
    /\ engine = "sync" /\ limitEntered.some /\ ~req.limit_price.some
    /\ last_price = 500000 /\ req.action = "SELL" /\ precision = 2

\* C9 as stated: last price 0.50, buy, precision 3 gives 0.5001; last price
\* 50.00, sell, precision 2 gives 49.99
C9_Original ==
    /\ C9_Case1 => limitEntered.v = 5001
    /\ C9_Case2 => limitEntered.v = 499900

\* C9, amended: last price 0.50, buy, precision 3 gives 0.51; last price
\* 50.00, sell, precision 2 gives 49.99
C9_Amended ==
    /\ C9_Case1 => limitEntered.v = 5100
    /\ C9_Case2 => limitEntered.v = 499900

\* the buy at 0.50 with precision 3
C9_Witness == C9_Case1 /\ limitEntered.v = 5100

C10_Submitted == engine = "sync" /\ result.ret /\ placeClicks > 0

C10_TimeoutMessage ==
    /\ result.error_message.kind \in {"confirm_timeout", "timeout_during"}
    /\ AlertOf(result) = "TIMEOUT"

\* C10 as stated: a non-dry FidelityTrading.transaction that passed
\* validation succeeds exactly when "Order received" was seen, and otherwise
\* fails with a timeout-sourced message classified TIMEOUT
C10_Original ==
    C10_Submitted =>
        /\ result.success <=> confirmSeen
        /\ ~result.success => C10_TimeoutMessage

C10_AsyncSubmitted == engine = "async" /\ result.ret /\ placeClicks > 0

\* C10, amended: FidelityTrading.transaction succeeds exactly when "Order
\* received" was seen; when the click or a wait expired it fails with a
\* timeout-sourced message classified TIMEOUT; when another exception was
\* raised it fails with the generic transaction-error message.
\* FidelityClientAsync.transaction succeeds exactly when a confirmation was
\* seen, and otherwise fails with "Order may not have been placed" or with
\* the text of the exception raised
C10_Amended ==
    /\ C10_Submitted =>
          /\ result.success <=> confirmSeen
          /\ ~result.success => exc \in {"timeout", "fault"}
          /\ (~result.success /\ exc = "timeout") => C10_TimeoutMessage
          /\ (~result.success /\ exc = "fault") =>
                result.error_message.kind = "transaction_error"
    /\ C10_AsyncSubmitted =>
          /\ result.success <=> confirmSeen
          /\ (~result.success /\ exc = "none") =>
                result.error_message.kind = "not_placed"
          /\ (~result.success /\ exc # "none") =>
                result.error_message.kind = "exception_text"

\* the wait for "Order received" expired
C10_Witness ==
    /\ C10_Submitted /\ ~result.success /\ exc = "timeout"
    /\ result.error_message.kind = "confirm_timeout"

(***************************************************************************)
(* Properties of login.                                                    *)
(***************************************************************************)
LastLoginStep == IF lsteps = << >> THEN "none" ELSE lsteps[Len(lsteps)]

RanLogin(step) == \E i \in 1..Len(lsteps) : lsteps[i] = step

Did(action) == \E i \in 1..Len(ui) : ui[i] = action

\* _handle_2fa went on to _complete_totp_login
TookTotp == lpc = "totp" \/ RanLogin("totp")

\* _handle_2fa went on to the SMS path
TookSms == lpc = "sms" \/ RanLogin("sms")

\* C11: no exception leaves login: a timeout or any other exception raised
\* while the credentials are entered or in a 2FA sub-flow ends login with a
\* returned pair of booleans
C11_LoginNeverRaises ==
    /\ lresult.ret <=> lpc = "done"
    /\ lresult.ret => ~lresult.raised
    /\ lexc # "none" =>
          /\ lpc = "done" /\ lresult.ret /\ ~lresult.raised
          /\ lresult.step1 \in BOOLEAN /\ lresult.step2 \in BOOLEAN

\* an exception other than a timeout ended the SMS path
C11_Witness ==
    /\ lexc = "fault" /\ LastLoginStep = "sms" /\ lresult.ret
    /\ Did("click_text_me")

\* the TOTP code was submitted and the wait for the summary page expired
C12_Case ==
    /\ lpc = "done" /\ LastLoginStep = "await_summary" /\ lexc = "timeout"
    /\ TruthySecret(lreq.totp_secret) /\ totpVisible /\ Did("click_continue")

\* C12: when the TOTP code was submitted and the summary page is not
\* reached within the bounded wait, login returns (true, false)
C12_TotpTimeoutKeepsStepOne ==
    C12_Case => (lresult.step1 /\ ~lresult.step2)

\* a TOTP secret was supplied: not None, not the sentinel, not empty
C13_Supplied == lreq.totp_secret \notin {None, Some("NA"), Some("")}

C14_LocationDecides ==
    RanLogin("location") =>
        /\ location.summary =>
              /\ lpc = "done" /\ lresult = LoginResult(TRUE, TRUE)
              /\ LastLoginStep = "location" /\ ui = CredentialScript
        /\ (~location.summary /\ ~location.login) =>
              /\ lpc = "done" /\ lresult = LoginResult(FALSE, FALSE)
              /\ LastLoginStep = "location" /\ ui = CredentialScript

\* the summary was reached at once although a secret was passed
C14_Witness ==
    /\ RanLogin("location") /\ location.summary /\ C13_Supplied
    /\ lresult = LoginResult(TRUE, TRUE)

\* C15: login with totp_secret="NA" does what login with totp_secret=None
\* does for the same page: the same branch of _handle_2fa is taken, and no
\* TOTP code is computed or entered
C15_SentinelIsNone ==
    lreq.totp_secret = Some("NA") =>
        /\ ~TookTotp /\ lpc # "await_summary"
        /\ ~Did("fill_totp_code") /\ ~Did("click_totp_input")
        /\ (TookSms \/ TookTotp) =>
              /\ totp_secret = None
              /\ TookTotp <=> UseTotp(None, totpVisible)

\* "NA" was passed, the TOTP prompt was shown and the SMS path was taken
C15_Witness ==
    /\ lreq.totp_secret = Some("NA") /\ totpVisible /\ RanLogin("sms")
    /\ lresult = LoginResult(TRUE, FALSE)

(***************************************************************************)
(* Properties of the service facade.                                       *)
(***************************************************************************)
\* a transaction has done its first UI action and not yet its last
TxInFlight == hpc = "tx_end"

DidEvent(what) == \E i \in 1..Len(events) : events[i].what = what

C19_Missing ==
    host # "none" /\
    (~config.username \/ ~config.password \/ ~config.totp_secret)

\* C18: a request to /execute-trade, /accounts or /refresh-session with a
\* wrong X-API-Key is answered 401 and does nothing else: no login, no
\* transaction, no client made or closed, the flag unchanged
C18_BadKeyRejected ==
    /\ []((host = "worker" /\ handler # NoHandler /\ ~handler.key_ok) =>
             (hpc = "verify" /\ events = << >> /\ logins = << >>))
    /\ []((response.id # 0 /\ response.status = 401) =>
             (events = << >> /\ logins = << >>))
    /\ [][(hpc = "verify" /\ ~handler.key_ok) =>
             /\ UNCHANGED << client, authenticated, created, closed, mark >>
             /\ hpc' # "verify" =>
                   (response'.status = 401 /\ response'.id = handler.id)]_vars

\* a refresh with a wrong key was answered 401 and the session was kept
C18_Witness ==
    /\ response.kind = "refresh" /\ response.status = 401
    /\ authenticated /\ client # 0 /\ closed = {}

\* C19: with a credential missing the service never authenticates: no
\* client is made, login is not called, a trade request is answered with
\* the not-authenticated failure and transaction is not called
C19_NoCredentialsNoLogin ==
    C19_Missing =>
        /\ ~authenticated /\ client = 0 /\ created = 0
        /\ logins = << >> /\ events = << >>
        /\ hpc \notin {"tx_begin", "tx_end"}
        /\ (response.kind = "trade" /\ response.status # 401) =>
              IF host = "worker"
              THEN response.status = 503
              ELSE /\ ~response.success
                   /\ response.message = "Not authenticated with Fidelity"
        /\ (response.kind \in {"authenticate", "refresh"}
               /\ response.status # 401) => ~response.success

\* the worker answered a trade request 503 with only the password missing
C19_Witness ==
    /\ host = "worker" /\ ~config.password /\ config.username
    /\ config.totp_secret
    /\ response.kind = "trade" /\ response.status = 503

\* C20: every response body of POST /execute-trade, for a trade that
\* succeeded and for one that failed, holds success, message and alert
C20_ResponseHasAlert ==
    (host = "worker" /\ response.kind = "trade" /\ response.status = 200) =>
        {"success", "message", "alert"} \subseteq response.fields

(***************************************************************************)
(* Properties of the transaction engines, continued.                       *)
(***************************************************************************)
\* C21: FidelityClientAsync.transaction returns three values (success,
\* error_message, alert) on every return path
C21_ThreeValues ==
    (engine = "async" /\ result.ret /\ ~result.raised) =>
        Len(AsyncReturn(result)) = 3

\* C25: FidelityTrading.transaction returns success only after "Place
\* order" became visible in the preview and the four checks held, and for
\* a non-dry run after "Order received" was seen as well
C25_SuccessNeedsSignal ==
    (engine = "sync" /\ result.ret /\ result.success) =>
        /\ placeVisible
        /\ Len(checks) = 4 /\ \A i \in 1..4 : checks[i]
        /\ ~req.dry => confirmSeen

\* C26: FidelityClientAsync.transaction reports a dry-run success, and
\* clicks "Place order", only after the four cross-checks of the preview
\* (account, symbol, action, quantity) held
C26_AsyncCrossChecks ==
    (engine = "async"
        /\ ((result.ret /\ result.success /\ req.dry) \/ placeClicks > 0)) =>
        (Len(checks) = 4 /\ \A i \in 1..4 : checks[i])

\* no whitespace at either end and no two whitespace characters in a row
Normalised(t) ==
    /\ t # << >> => (t[1] \notin Whitespace /\ t[Len(t)] \notin Whitespace)
    /\ \A i \in 1..Len(t) - 1 :
          ~(t[i] \in Whitespace /\ t[i + 1] \in Whitespace)

\* C27: when "Place order" did not become visible the preview stage ends
\* the transaction with success=false: either with the extracted error
\* text, whitespace normalised and "critical" removed, and no reload, or,
\* no text having been extracted, with one reload and the message "Could
\* not retrieve error message"
C27_ErrorTextOrReload ==
    [][(engine = "sync" /\ pc = "preview" /\ preview_error'.some) =>
          /\ pc' = "done" /\ result'.ret /\ ~result'.success
          /\ \/ /\ result'.error_message.kind = "preview_error"
                /\ result'.error_message.text # EmptyText
                /\ Normalised(result'.error_message.text)
                /\ ~Contains(result'.error_message.text, "critical")
                /\ reloads' = reloads
             \/ /\ result'.error_message.kind = "could_not_retrieve"
                /\ reloads' = reloads + 1]_vars

\* C29: a limit price computed by the engine is above the last price for a
\* buy and below it for a sell
C29_NudgeSurvives ==
    (engine = "sync" /\ limitEntered.some /\ ~req.limit_price.some) =>
        IF Lower(req.action) = "buy"
        THEN limitEntered.v > last_price
        ELSE limitEntered.v < last_price

\* C30: the text filled into the symbol field is the upper-cased ticker
C30_SymbolUpperCased ==
    symbolEntered # "" => symbolEntered = Upper(req.stock)

\* C28: account selection reloads the page at most once, and only when the
\* account option was not visible after the selector was opened; a
\* transaction that ends in account selection has failed and has entered
\* no symbol and no later field
C28_OneReloadForAccount ==
    engine = "sync" =>
        /\ ~Ran("preview") =>
              /\ reloads <= 1
              /\ reloads = 1 <=> optionVisible = "no"
        /\ (result.ret /\ LastStage = "select_account") =>
              /\ ~result.success
              /\ stages = << "navigate", "select_account" >>
              /\ symbolEntered = "" /\ qtyEntered = None
              /\ orderMode = "none" /\ previewClicks = 0 /\ placeClicks = 0

\* the option was not visible, the page was reloaded once, the click on the
\* option expired and the transaction ended
C28_Witness ==
    /\ engine = "sync" /\ result.ret /\ LastStage = "select_account"
    /\ optionVisible = "no" /\ reloads = 1 /\ exc = "timeout"

(***************************************************************************)
(* Properties of the service facade, continued.                            *)
(***************************************************************************)
\* C22: the end of a transaction, failed or not, leaves the client and the
\* authenticated flag as they were and gives a response, not an exception;
\* a trade request handled while the flag is set uses the client in place
\* and calls login no more
C22_FailedTradeKeepsSession ==
    /\ [][(hpc = "tx_end" /\ hpc' = "idle") =>
             /\ client' = client /\ authenticated' = authenticated
             /\ created' = created /\ closed' = closed
             /\ response'.id = handler.id /\ ~response'.raised
             /\ host = "service" =>
                   (response'.status = 0
                       /\ response'.fields = {"success", "message", "details"})]_vars
    /\ [][(hpc \in {"trade", "tx_begin"} /\ authenticated) =>
             /\ client' = client /\ authenticated'
             /\ created' = created /\ logins' = logins]_vars

\* the transaction of TraderService.execute_trade raised, the failure was
\* returned and the session is in place while another request waits
C22_Witness ==
    /\ host = "service" /\ response.kind = "trade" /\ ~response.success
    /\ response.message = "Trade execution error"
    /\ authenticated /\ client # 0 /\ client \notin closed
    /\ waiting # {}

(***************************************************************************)
(* Properties of the error classifier and of the portfolio reader.         *)
(***************************************************************************)
\* the message holds the phrase, in whatever case
HasPhrase(p) ==
    \E i \in 1..Len(message) :
       message[i] = p \/ (message[i] # p /\ Lower(message[i]) = p)

\* C23: classify_error returns, for every message, one alert code other
\* than SUCCESS: NO_POSITION, INSUFFICIENT_FUNDS, MARKET_CLOSED and TIMEOUT
\* in this order of precedence for a message holding their phrase in any
\* case, ORDER_REJECTED for any other non-empty message, UNKNOWN for the
\* empty one
C23_ClassifierTotal ==
    alert # "none" =>
        /\ alert \in AlertCodes \ {"SUCCESS"}
        /\ HasPhrase("noshares") => alert = "NO_POSITION"
        /\ (~HasPhrase("noshares") /\ HasPhrase("insufficient")) =>
              alert = "INSUFFICIENT_FUNDS"
        /\ (~HasPhrase("noshares") /\ ~HasPhrase("insufficient")
               /\ HasPhrase("closed")) => alert = "MARKET_CLOSED"
        /\ (~HasPhrase("noshares") /\ ~HasPhrase("insufficient")
               /\ ~HasPhrase("closed") /\ HasPhrase("timeout")) =>
              alert = "TIMEOUT"
        /\ (message # EmptyText
               /\ \A p \in {"noshares", "insufficient", "closed", "timeout"} :
                     ~HasPhrase(p)) => alert = "ORDER_REJECTED"
        /\ message = EmptyText => alert = "UNKNOWN"

\* a message with the phrases of two codes, the first in mixed case, was
\* classified by the one of higher precedence
C23_Witness ==
    /\ message = << "insufficient", "NoShares" >>
    /\ alert = "NO_POSITION"

RECURSIVE SumValues(_)
SumValues(stocks) ==
    IF stocks = << >> THEN 0
    ELSE stocks[1].value + SumValues(Tail(stocks))

\* C24: the balance of an Account built by get_account_info, or built
\* empty and filled by add_stock, is the sum of the values of its stocks
\* and is not negative
C24_BalanceIsSumAndNotNegative ==
    account.made =>
        /\ account.balance = SumValues(account.stocks)
        /\ account.balance >= 0

(***************************************************************************)
(* Further properties of the transaction engines and of login.             *)
(***************************************************************************)
\* C31: the number filled into the quantity field is the requested
\* quantity truncated to an integer
C31_QuantityTruncated ==
    qtyEntered.some => qtyEntered.v = IntQuantity(req.quantity)

\* C39: a limit price computed by the engine is greater than zero
C39_LimitPricePositive ==
    (engine = "sync" /\ limitEntered.some /\ ~req.limit_price.some) =>
        limitEntered.v > 0

\* C38: login never returns (false, true): a pair whose second value is
\* true has its first value true, so "step1 and step2" is the second value
C38_FullImpliesStepOne ==
    (lresult.ret /\ ~lresult.raised) =>
        /\ lresult.step2 => lresult.step1
        /\ Authenticated(lresult) <=> lresult.step2

\* login ended in an except clause after the credentials had been accepted
\* and the TOTP code entered
C38_Witness ==
    /\ lresult.ret /\ ~lresult.raised /\ lexc # "none"
    /\ RanLogin("totp") /\ ~lresult.step1 /\ ~lresult.step2

\* C32: every call of FidelityTrading.transaction that has begun returns a
\* result
C32_Returns ==
    (engine = "sync" /\ pc \notin {"idle", "done"}) ~> (pc = "done" /\ result.ret)

\* a wait of the preview stage expired and the call returned a failure
C32_Witness ==
    /\ engine = "sync" /\ pc = "done" /\ result.ret /\ ~result.success
    /\ exc = "timeout" /\ LastStage = "preview" /\ previewClicks = 1

\* C35: one call of FidelityTrading.transaction clicks "Place order" at
\* most once, and the call has ended once the click was made
C35_OnePlaceOrderClick ==
    engine = "sync" =>
        /\ placeClicks <= 1
        /\ placeClicks = 1 => (pc = "done" /\ result.ret)

\* the wait for the confirmation expired after the one click
C35_Witness ==
    /\ engine = "sync" /\ placeClicks = 1 /\ ~confirmSeen
    /\ result.ret /\ result.error_message.kind = "confirm_timeout"
    /\ stages[Len(stages)] = "submit"

\* C36: when transaction has returned after a preview in which "Place
\* order" did not appear, the error dialog was closed or the page reloaded
C36_PageLeftUnblocked ==
    (engine = "sync" /\ result.ret /\ errorDialog # "none") =>
        errorDialog \in {"closed", "reloaded"}

C37_TransactionNeedsSession ==
    /\ hpc \in {"tx_begin", "tx_end"} =>
          /\ handler.kind = "trade"
          /\ authenticated
          /\ handler.account \/ config.default_account
    /\ (handler.kind = "trade" /\ ~handler.account
           /\ ~config.default_account) =>
          (~DidEvent("tx_begin") /\ ~DidEvent("tx_end"))
    /\ \A i \in 1..Len(events) :
          events[i].what = "tx_begin" =>
             (events[i].client # 0 /\ events[i].client \notin closed)

\* a trade request without an account is about to call
\* transaction with the default account
C37_Witness ==
    /\ host = "service" /\ hpc = "tx_begin"
    /\ ~handler.account /\ config.default_account /\ authenticated

(***************************************************************************)
(* Further properties of the portfolio reader.                             *)
(***************************************************************************)
\* the Stock entries of the rows that the page shows in account container i
StocksHeld(rs, i) ==
    LET own == SelectSeq(rs, LAMBDA c : c.ok /\ c.owner = i)
    IN  [k \in 1..Len(own) |-> Stock(own[k].value)]

\* C34: an account returned by get_account_info lists the position rows of
\* its own container and no others, and its balance counts only those
C34_RowsInOwnAccount ==
    [][(~account.made /\ account'.made /\ account'.by = "get_account_info")
         => /\ account'.stocks = StocksHeld(rows, account'.number)
            /\ account'.balance =
                  SumValues(StocksHeld(rows, account'.number))]_vars

=============================================================================
